---- MODULE Spec2Model ----
(***************************************************************************)
(* Document ingestion and role-filtered retrieval of the knowledge         *)
(* assistant backend: backend/app/services/document_ingestion.py and the   *)
(* document endpoints of backend/app/api/v1/documents.py.                  *)
(*                                                                         *)
(* The Chroma collection is modelled as a set of records keyed by id.      *)
(* collection.add follows the PersistentClient (chromadb >= 0.4) contract: *)
(* an id that is already present is left untouched, the other records of   *)
(* the batch are inserted; a call that raises writes nothing.  A where     *)
(* clause is the conjunction of its per-key $in conditions.  Metadata      *)
(* fields no filter reads (title, file_name, file_type, file_size,         *)
(* uploaded_by, ingestion_timestamp, chunk_size) are left out of records.  *)
(***************************************************************************)
EXTENDS Integers, Sequences, FiniteSets, TLC

(* ------------------------------ bounds --------------------------------- *)
\* longest extracted text, in characters
MaxLen == 6
\* settings.CHUNK_SIZE (1000) and settings.CHUNK_OVERLAP (200), scaled down
CHUNK_SIZE == 3
CHUNK_OVERLAP == 1
\* settings.EMBEDDING_BATCH_SIZE (32), scaled down
EMBEDDING_BATCH_SIZE == 2
\* largest k of a search
MaxK == 2
\* settings.TOP_K_RETRIEVAL (5), scaled down: largest k of a search over the
\* documents the pipeline ingested
TOP_K_RETRIEVAL == 3
\* longest text handed to the chunker on its own
MaxTextLen == 5
\* largest document id and chunk index an id is built from
MaxId == 11
\* distances and relevance scores are counted in steps of 1/Resolution
Resolution == 5

\* document ids
Docs == {1, 2}
\* document ids and chunk indices of one and of two digits, and a negative one
IdNumbers == {-1, 0, 1, MaxId - 1, MaxId}

(* ------------------------------ values --------------------------------- *)
\* Python None as a department value
NoDept == "None"
Levels == {"employee", "manager", "admin"}
\* role strings a caller may pass; "guest" stands for any unknown role
Roles == {"employee", "manager", "admin", "guest"}
\* departments a document can be tagged with
DocDepartments == {NoDept, "HR"}
\* departments a searching user can have ("" is Python's empty string)
UserDepartments == {NoDept, "", "HR", "Finance"}

Alphabet == <<"a", "b", "c", "d", "e", "f", "g", "h">>
\* extracted texts: slices of the alphabet, of 0 to MaxLen characters
Texts == {SubSeq(Alphabet, 1, e) : e \in {0, MaxLen - 2, MaxLen}}
\* (access_level, department) pairs documents are ingested with
Classes == {<<"employee", NoDept>>, <<"manager", "HR">>}
\* inputs of the retrieval specification: one text, every classification
RetrievalTexts == {SubSeq(Alphabet, 1, MaxLen - 2)}
RetrievalClasses == Levels \X DocDepartments
Queries == {<<"b">>}
\* texts handed to the chunker on its own: letters and spaces
RECURSIVE TextsUpTo(_)
TextsUpTo(n) ==
  IF n = 0 THEN {<<>>}
  ELSE LET shorter == TextsUpTo(n - 1)
       IN shorter \cup {Append(t, c) : t \in shorter, c \in {"a", "b", " "}}
ChunkTexts == TextsUpTo(MaxTextLen)

Min(a, b) == IF a < b THEN a ELSE b
Abs(a) == IF a < 0 THEN 0 - a ELSE a

(* ------------------------------ chunker -------------------------------- *)
\* A text is a sequence of characters; " " is the one separator character
\* the modelled texts hold (none holds "\n").
RECURSIVE Flatten(_)
Flatten(pieces) == IF pieces = <<>> THEN <<>> ELSE Head(pieces) \o Flatten(Tail(pieces))
Chars(text) == [i \in 1..Len(text) |-> <<text[i]>>]

\* str.strip()
RECURSIVE strip(_)
strip(text) ==
  IF text = <<>> THEN text
  ELSE IF Head(text) = " " THEN strip(Tail(text))
  ELSE IF text[Len(text)] = " " THEN strip(SubSeq(text, 1, Len(text) - 1))
  ELSE text

\* TextSplitter._join_docs with the separator "": the pieces joined and
\* stripped; the empty text stands for None
join_docs(cur) == strip(Flatten(cur))

\* the while loop of _merge_splits: pieces are dropped from the front of
\* current_doc until what is left fits the overlap and leaves room for the
\* next piece, of length len
RECURSIVE popped(_, _)
popped(cur, len) ==
  LET total == Len(Flatten(cur))
  IN IF total > CHUNK_OVERLAP \/ (total + len > CHUNK_SIZE /\ total > 0)
     THEN popped(Tail(cur), len)
     ELSE cur

\* RecursiveCharacterTextSplitter._merge_splits for pieces joined by the
\* separator "": cur is current_doc, docs the chunks so far.
RECURSIVE merge_splits(_, _, _)
merge_splits(splits, cur, docs) ==
  LET emitted == IF join_docs(cur) = <<>> THEN docs ELSE Append(docs, join_docs(cur))
  IN IF splits = <<>>
     THEN emitted
     ELSE LET d == Head(splits)
          IN IF Len(Flatten(cur)) + Len(d) > CHUNK_SIZE /\ cur # <<>>
             THEN merge_splits(Tail(splits), Append(popped(cur, Len(d)), d), emitted)
             ELSE merge_splits(Tail(splits), Append(cur, d), docs)

\* _split_text_with_regex(text, " ", keep_separator=True): the text cut in
\* front of every " ", empty pieces left out
RECURSIVE split_text_with_regex(_, _, _)
split_text_with_regex(text, piece, pieces) ==
  LET closed == IF piece = <<>> THEN pieces ELSE Append(pieces, piece)
  IN IF text = <<>> THEN closed
     ELSE IF Head(text) = " "
     THEN split_text_with_regex(Tail(text), <<" ">>, closed)
     ELSE split_text_with_regex(Tail(text), Append(piece, Head(text)), pieces)

\* the loop of _split_text over the pieces cut at " ": pieces shorter than
\* the chunk size are collected and merged, a longer piece is split again
\* with the separator "", that is into its characters
RECURSIVE split_pieces(_, _, _)
split_pieces(splits, good, final) ==
  IF splits = <<>>
  THEN final \o merge_splits(good, <<>>, <<>>)
  ELSE LET s == Head(splits)
       IN IF Len(s) < CHUNK_SIZE
          THEN split_pieces(Tail(splits), Append(good, s), final)
          ELSE split_pieces(Tail(splits), <<>>,
                            final \o merge_splits(good, <<>>, <<>>)
                                  \o merge_splits(Chars(s), <<>>, <<>>))

\* text_splitter.split_text(text) with separators ["\n\n", "\n", " ", ""]:
\* the first separator the text holds is used, "" if it holds none
split_text(text) ==
  IF \E i \in DOMAIN text : text[i] = " "
  THEN split_pieces(split_text_with_regex(text, <<>>, <<>>), <<>>, <<>>)
  ELSE merge_splits(Chars(text), <<>>, <<>>)

\* chunk_text as it would be if the chunks were numbered from 1
chunk_text_from_one(text, metadata) ==
  LET chunks == split_text(text)
  IN [i \in 1..Len(chunks) |->
        [document_id  |-> metadata.document_id,
         chunk_index  |-> i,
         content      |-> chunks[i],
         metadata     |-> [document_id  |-> metadata.document_id,
                           access_level |-> metadata.access_level,
                           department   |-> metadata.department,
                           chunk_index  |-> i,
                           total_chunks |-> Len(chunks)]]]

\* chunk_text as it would be if the chunk metadata were built without the
\* document's department
chunk_text_no_department(text, metadata) ==
  LET chunks == split_text(text)
  IN [i \in 1..Len(chunks) |->
        [document_id  |-> metadata.document_id,
         chunk_index  |-> i - 1,
         content      |-> chunks[i],
         metadata     |-> [document_id  |-> metadata.document_id,
                           access_level |-> metadata.access_level,
                           department   |-> NoDept,
                           chunk_index  |-> i - 1,
                           total_chunks |-> Len(chunks)]]]

\* DocumentChunk objects built by TextChunker.chunk_text(text, metadata)
chunk_text(text, metadata) ==
  LET chunks == split_text(text)
  IN [i \in 1..Len(chunks) |->
        [document_id  |-> metadata.document_id,
         chunk_index  |-> i - 1,
         content      |-> chunks[i],
         metadata     |-> [document_id  |-> metadata.document_id,
                           access_level |-> metadata.access_level,
                           department   |-> metadata.department,
                           chunk_index  |-> i - 1,
                           total_chunks |-> Len(chunks)]]]

(* ----------------------------- embeddings ------------------------------ *)
\* The embedding model is a black box; a text's vector is modelled by the
\* sum of its character positions, the cosine distance by the difference,
\* which the collection (hnsw:space cosine) reports within [0, 2].
CharCode(c) == CHOOSE i \in DOMAIN Alphabet : Alphabet[i] = c
RECURSIVE encode(_)
encode(text) == IF text = <<>> THEN 0 ELSE CharCode(Head(text)) + encode(Tail(text))
Distance(u, v) == Min(Abs(u - v), 2 * Resolution)

(* ---------------------------- vector store ----------------------------- *)
\* ChunkId as it would be if the two numbers were written one after the
\* other
ChunkId_unseparated(document_id, chunk_index) ==
  "doc_chunk_" \o ToString(document_id) \o ToString(chunk_index)

\* id built in add_documents: f"doc_{document_id}_chunk_{chunk_index}"
ChunkId(document_id, chunk_index) ==
  "doc_" \o ToString(document_id) \o "_chunk_" \o ToString(chunk_index)

Ids(coll) == {r.id : r \in coll}

\* the records add_documents hands to collection.add in one call
AddBatch(chunks, embeddings) ==
  {[id        |-> ChunkId(chunks[i].document_id, chunks[i].chunk_index),
    embedding |-> embeddings[i],
    document  |-> chunks[i].content,
    metadata  |-> chunks[i].metadata] : i \in DOMAIN chunks}

\* collection.add: records whose id is already in the collection are skipped
collection_add(coll, batch) == coll \cup {r \in batch : r.id \notin Ids(coll)}

\* Python None / a dict as the value of a filter
NoFilter == [kind |-> "None"]
DictFilter(cond) == [kind |-> "dict", cond |-> cond]

\* does a record's metadata satisfy a where clause
Matches(where, metadata) ==
  \/ where.kind = "None"
  \/ /\ where.kind = "dict"
     /\ \A key \in DOMAIN where.cond : metadata[key] \in where.cond[key]

\* the orders in which the collection can report the n nearest records of S
RECURSIVE Nearest(_, _, _)
Nearest(S, q, n) ==
  IF n = 0 \/ S = {}
  THEN {<<>>}
  ELSE LET best == {r \in S : \A o \in S : Distance(q, r.embedding) <= Distance(q, o.embedding)}
       IN UNION {{<<r>> \o t : t \in Nearest(S \ {r}, q, n - 1)} : r \in best}

\* collection.query as it would be if it reported one record more than
\* n_results
collection_query_extra(coll, q, k, where) ==
  Nearest({r \in coll : Matches(where, r.metadata)}, q, k + 1)

\* collection.query(query_embeddings=[q], n_results=k, where=where)
collection_query(coll, q, k, where) ==
  Nearest({r \in coll : Matches(where, r.metadata)}, q, k)

\* similarity_search as it would be if the collection were queried without
\* the where clause and the k nearest records were filtered afterwards
similarity_search_postfilter(coll, query_embedding, k, filter_metadata) ==
  LET keep(r) == Matches(filter_metadata, r.metadata)
      formatted(res) == [i \in 1..Len(res) |->
                           [content  |-> res[i].document,
                            metadata |-> res[i].metadata,
                            distance |-> Distance(query_embedding, res[i].embedding),
                            id       |-> res[i].id]]
  IN {formatted(SelectSeq(res, keep)) : res \in collection_query(coll, query_embedding, k, NoFilter)}

\* similarity_search as it would be if the formatting loop put each match
\* in front of the ones before it
similarity_search_reversed(coll, query_embedding, k, filter_metadata) ==
  LET where_clause == IF filter_metadata.kind = "dict" /\ DOMAIN filter_metadata.cond # {}
                      THEN filter_metadata ELSE NoFilter
      formatted(res) == [i \in 1..Len(res) |->
                           [content  |-> res[Len(res) + 1 - i].document,
                            metadata |-> res[Len(res) + 1 - i].metadata,
                            distance |-> Distance(query_embedding,
                                                  res[Len(res) + 1 - i].embedding),
                            id       |-> res[Len(res) + 1 - i].id]]
  IN {formatted(res) : res \in collection_query(coll, query_embedding, k, where_clause)}

\* VectorStoreService.similarity_search: the result lists it can return
similarity_search(coll, query_embedding, k, filter_metadata) ==
  LET where_clause == IF filter_metadata.kind = "dict" /\ DOMAIN filter_metadata.cond # {}
                      THEN filter_metadata ELSE NoFilter
      formatted(res) == [i \in 1..Len(res) |->
                           [content  |-> res[i].document,
                            metadata |-> res[i].metadata,
                            distance |-> Distance(query_embedding, res[i].embedding),
                            id       |-> res[i].id]]
  IN {formatted(res) : res \in collection_query(coll, query_embedding, k, where_clause)}

(* ---------------------------- access filter ---------------------------- *)
\* Python truthiness of a department argument
Truthy(department) == department # NoDept /\ department # ""

\* _build_access_filter as it would be if the manager branch listed every level
build_access_filter_wide(user_role, department) ==
  LET role_cond == IF user_role = "employee"
                   THEN [key \in {"access_level"} |-> {"employee"}]
                   ELSE IF user_role = "manager"
                   THEN [key \in {"access_level"} |-> {"employee", "manager", "admin"}]
                   ELSE [key \in {} |-> {}]
      dept_cond == IF Truthy(department) /\ user_role # "admin"
                   THEN [key \in {"department"} |-> {department, NoDept}]
                   ELSE [key \in {} |-> {}]
      filter_conditions == role_cond @@ dept_cond
  IN IF DOMAIN filter_conditions # {} THEN DictFilter(filter_conditions) ELSE NoFilter

\* _build_access_filter as it would be if the department condition were set
\* in the employee branch only
build_access_filter_employee_dept(user_role, department) ==
  LET role_cond == IF user_role = "employee"
                   THEN [key \in {"access_level"} |-> {"employee"}]
                   ELSE IF user_role = "manager"
                   THEN [key \in {"access_level"} |-> {"employee", "manager"}]
                   ELSE [key \in {} |-> {}]
      dept_cond == IF Truthy(department) /\ user_role = "employee"
                   THEN [key \in {"department"} |-> {department, NoDept}]
                   ELSE [key \in {} |-> {}]
      filter_conditions == role_cond @@ dept_cond
  IN IF DOMAIN filter_conditions # {} THEN DictFilter(filter_conditions) ELSE NoFilter

\* DocumentIngestionPipeline._build_access_filter
build_access_filter(user_role, department) ==
  LET role_cond == IF user_role = "employee"
                   THEN [key \in {"access_level"} |-> {"employee"}]
                   ELSE IF user_role = "manager"
                   THEN [key \in {"access_level"} |-> {"employee", "manager"}]
                   ELSE [key \in {} |-> {}]
      dept_cond == IF Truthy(department) /\ user_role # "admin"
                   THEN [key \in {"department"} |-> {department, NoDept}]
                   ELSE [key \in {} |-> {}]
      filter_conditions == role_cond @@ dept_cond
  IN IF DOMAIN filter_conditions # {} THEN DictFilter(filter_conditions) ELSE NoFilter

(* ------------------------------- state --------------------------------- *)
VARIABLES
  store,    \* the records of the Chroma collection "knowledge_base"
  rows,     \* the documents table: Docs -> row (columns read by no modelled
            \* operation are left out)
  run,      \* Docs -> the ingest_document coroutine running for that id
  response  \* what the latest call of an endpoint or of search_documents answered

vars == <<store, rows, run, response>>

NoText == <<"-">>
\* a row of the documents table with the file saved for it: present, the
\* columns is_indexed, access_level and department, and whether the file at
\* file_path exists
NoRow == [present |-> FALSE, is_indexed |-> FALSE, access_level |-> "employee",
          department |-> NoDept, file |-> FALSE]
NoResponse == [status |-> "none"]
Stages == <<"extract", "chunk", "embed", "store">>

\* pc: position of the coroutine; trace: the stage calls that returned, in
\* order; fault: the stage whose collaborator the environment made fail;
\* failed: the stage whose exception reached the except branch;
\* pre: the collection when the run began; batch, adds: what was handed to
\* collection.add, and how many times; error: str(e) of the except branch;
\* embed_calls: how many times aembed_documents was called; cause: whether
\* the embedding backend's failure was a passing one (connection, timeout)
\* or a lasting one (dimension mismatch)
IdleRun == [pc |-> "idle", caller |-> "none", text |-> NoText,
            metadata |-> [document_id |-> 0, access_level |-> "employee",
                          department |-> NoDept],
            chunks |-> <<>>, embeddings |-> <<>>,
            batch |-> {}, adds |-> 0, pre |-> {}, trace |-> <<>>,
            fault |-> "none", failed |-> "none", error |-> "none",
            embed_calls |-> 0, cause |-> "none"]

AllIdle == \A d \in Docs : run[d].pc = "idle"

Init ==
  /\ store = {}
  /\ rows = [d \in Docs |-> NoRow]
  /\ run = [d \in Docs |-> IdleRun]
  /\ response = NoResponse

(* --------------------------- ingest_document --------------------------- *)
\* entry of ingest_document: metadata.update(document_id ...), then the
\* coroutine waits on the text extraction
BeginRun(d, caller, text, access_level, department) ==
  [IdleRun EXCEPT !.pc = "extract", !.caller = caller, !.text = text,
                  !.metadata = [document_id |-> d, access_level |-> access_level,
                                department |-> department],
                  !.pre = store]

\* str(e) of the exception a stage lets out, up to the cause it quotes:
\* extract_text_from_file, generate_embeddings and add_documents wrap what
\* they catch in a message of their own, chunk_text wraps nothing
ErrorMessage(stage) ==
  CASE stage = "extract" -> "Error extracting text from"
    [] stage = "embed" -> "Error generating embeddings"
    [] stage = "store" -> "Error adding documents to vector store"
    [] OTHER -> "cause"

\* the except branch of ingest_document: status error, nothing else is done
FailRun(r, stage, fault) ==
  [r EXCEPT !.pc = "error", !.failed = stage, !.fault = fault,
            !.error = ErrorMessage(stage)]

\* the dict ingest_document returns from position pc
ingest_result(r) ==
  IF r.pc = "success"
  THEN [document_id |-> r.metadata.document_id, chunks_created |-> Len(r.chunks),
        status |-> "success"]
  ELSE [document_id |-> r.metadata.document_id, status |-> "error", error |-> r.error]

\* a direct call of ingestion_pipeline.ingest_document for document id d,
\* whatever the runs for other ids are doing
StartIngest(d, text, access_level, department) ==
  /\ run[d].pc = "idle"
  /\ run' = [run EXCEPT ![d] = BeginRun(d, "direct", text, access_level, department)]
  /\ response' = NoResponse
  /\ UNCHANGED <<store, rows>>

\* a direct call of ingestion_pipeline.ingest_document for document id d
\* while no other run is in flight
IngestDocument(d, text, access_level, department) ==
  /\ AllIdle
  /\ StartIngest(d, text, access_level, department)

\* Step 1: extract_text_from_file returns the file's text
ExtractOk(d) ==
  /\ run[d].pc = "extract"
  /\ run' = [run EXCEPT ![d].pc = "chunk", ![d].trace = Append(@, "extract")]
  /\ UNCHANGED <<store, rows, response>>

\* ExtractFail as it would be if the extraction error were swallowed and the
\* run went on to chunk an empty text
ExtractFail_swallowed(d) ==
  /\ run[d].pc = "extract"
  /\ run' = [run EXCEPT ![d].pc = "chunk", ![d].text = <<>>]
  /\ UNCHANGED <<store, rows, response>>

\* extract_text_from_file raises
ExtractFail(d) ==
  /\ run[d].pc = "extract"
  /\ run' = [run EXCEPT ![d] = FailRun(@, "extract", "extract")]
  /\ UNCHANGED <<store, rows, response>>

\* ChunkOk as it would be if the pipeline kept the metadata of the run
\* started last in a field of its own and chunked with that
ChunkOk_shared_metadata(d) ==
  /\ run[d].pc = "chunk"
  /\ LET others == {e \in Docs : e # d /\ run[e].pc # "idle"}
         metadata == IF others = {} THEN run[d].metadata
                     ELSE run[CHOOSE e \in others : TRUE].metadata
     IN run' = [run EXCEPT ![d].pc = "embed", ![d].trace = Append(@, "chunk"),
                           ![d].chunks = chunk_text(run[d].text, metadata),
                           ![d].embed_calls = @ + 1]
  /\ UNCHANGED <<store, rows, response>>

\* Step 2: chunker.chunk_text(text_content, metadata); generate_embeddings
\* then calls aembed_documents on the chunk texts
ChunkOk(d) ==
  /\ run[d].pc = "chunk"
  /\ run' = [run EXCEPT ![d].pc = "embed", ![d].trace = Append(@, "chunk"),
                        ![d].chunks = chunk_text(run[d].text, run[d].metadata),
                        ![d].embed_calls = @ + 1]
  /\ UNCHANGED <<store, rows, response>>

\* chunk_text raises
ChunkFail(d) ==
  /\ run[d].pc = "chunk"
  /\ run' = [run EXCEPT ![d] = FailRun(@, "chunk", "chunk")]
  /\ UNCHANGED <<store, rows, response>>

\* EmbedBatch as it would be if each slice were written to the collection as
\* soon as it is embedded
EmbedBatch_streaming(d) ==
  /\ run[d].pc = "embed"
  /\ Len(run[d].embeddings) < Len(run[d].chunks)
  /\ LET i == Len(run[d].embeddings)
         j == Min(i + EMBEDDING_BATCH_SIZE, Len(run[d].chunks))
         done == run[d].embeddings
                   \o [n \in 1..(j - i) |-> encode(run[d].chunks[i + n].content)]
     IN /\ run' = [run EXCEPT ![d].embeddings = done]
        /\ store' = collection_add(store, AddBatch(SubSeq(run[d].chunks, 1, j), done))
  /\ UNCHANGED <<rows, response>>

\* EmbedBatch as it would be if each slice's embeddings were put in front
\* of the ones collected so far
EmbedBatch_prepend(d) ==
  /\ run[d].pc = "embed"
  /\ Len(run[d].embeddings) < Len(run[d].chunks)
  /\ LET i == Len(run[d].embeddings)
         j == Min(i + EMBEDDING_BATCH_SIZE, Len(run[d].chunks))
     IN run' = [run EXCEPT ![d].embeddings =
                  [n \in 1..(j - i) |-> encode(run[d].chunks[i + n].content)] \o @]
  /\ UNCHANGED <<store, rows, response>>

\* Step 3: embed_documents encodes the next slice of batch_size chunk texts
EmbedBatch(d) ==
  /\ run[d].pc = "embed"
  /\ Len(run[d].embeddings) < Len(run[d].chunks)
  /\ LET i == Len(run[d].embeddings)
         j == Min(i + EMBEDDING_BATCH_SIZE, Len(run[d].chunks))
     IN run' = [run EXCEPT ![d].embeddings =
                  @ \o [n \in 1..(j - i) |-> encode(run[d].chunks[i + n].content)]]
  /\ UNCHANGED <<store, rows, response>>

\* the embedding backend raises, before, between or after the batches:
\* embed_documents logs and re-raises, generate_embeddings wraps and raises,
\* whatever the cause
EmbedFail(d, cause) ==
  /\ run[d].pc = "embed"
  /\ run' = [run EXCEPT ![d] = [FailRun(@, "embed", "embed") EXCEPT !.cause = cause]]
  /\ UNCHANGED <<store, rows, response>>

\* generate_embeddings returns the embeddings of every chunk
EmbedReturn(d) ==
  /\ run[d].pc = "embed"
  /\ Len(run[d].embeddings) = Len(run[d].chunks)
  /\ run' = [run EXCEPT ![d].pc = "index", ![d].trace = Append(@, "embed")]
  /\ UNCHANGED <<store, rows, response>>

\* AddRaises as it would be if collection.add refused ids that are present
AddRaises_duplicate(coll, batch, backend_up) ==
  ~backend_up \/ Ids(batch) \cap Ids(coll) # {}

\* does collection.add raise for this batch: only when the backend is down
AddRaises(coll, batch, backend_up) == ~backend_up

\* AddDocuments as it would be if a raising collection.add had already
\* written the first record of the batch
AddDocuments_partial(d, backend_up) ==
  /\ run[d].pc = "index"
  /\ LET batch == AddBatch(run[d].chunks, run[d].embeddings)
         called == [run[d] EXCEPT !.batch = batch, !.adds = @ + 1]
     IN IF AddRaises(store, batch, backend_up)
        THEN /\ run' = [run EXCEPT ![d] =
                          FailRun(called, "store", IF backend_up THEN "none" ELSE "store")]
             /\ store' = collection_add(store, {r \in batch : r.metadata.chunk_index = 0})
        ELSE /\ store' = collection_add(store, batch)
             /\ run' = [run EXCEPT ![d] =
                          [called EXCEPT !.pc = "success", !.trace = Append(@, "store")]]
  /\ UNCHANGED <<rows, response>>

\* AddDocuments as it would be if the records were added one call at a
\* time with an await between the calls
AddDocuments_one_by_one(d, backend_up) ==
  /\ run[d].pc = "index"
  /\ LET batch == AddBatch(run[d].chunks, run[d].embeddings)
         missing == {r \in batch : r.id \notin Ids(store)}
         called == [run[d] EXCEPT !.batch = batch, !.adds = 1]
     IN IF AddRaises(store, batch, backend_up)
        THEN /\ run' = [run EXCEPT ![d] =
                          FailRun(called, "store", IF backend_up THEN "none" ELSE "store")]
             /\ UNCHANGED store
        ELSE IF missing = {}
        THEN /\ run' = [run EXCEPT ![d] =
                          [called EXCEPT !.pc = "success", !.trace = Append(@, "store")]]
             /\ UNCHANGED store
        ELSE /\ \E r \in missing : store' = store \cup {r}
             /\ run' = [run EXCEPT ![d] = called]
  /\ UNCHANGED <<rows, response>>

\* Step 4: vector_store.add_documents(chunks, embeddings); on success
\* ingest_document returns status success, otherwise the except branch runs
AddDocuments(d, backend_up) ==
  /\ run[d].pc = "index"
  /\ LET batch == AddBatch(run[d].chunks, run[d].embeddings)
         called == [run[d] EXCEPT !.batch = batch, !.adds = @ + 1]
     IN IF AddRaises(store, batch, backend_up)
        THEN /\ run' = [run EXCEPT ![d] =
                          FailRun(called, "store", IF backend_up THEN "none" ELSE "store")]
             /\ UNCHANGED store
        ELSE /\ store' = collection_add(store, batch)
             /\ run' = [run EXCEPT ![d] =
                          [called EXCEPT !.pc = "success", !.trace = Append(@, "store")]]
  /\ UNCHANGED <<rows, response>>

\* Cancel as it would be if the task could also be cancelled inside
\* collection.add, after the first record of the batch was written
Cancel_during_add(d) ==
  \/ /\ run[d].pc \in {"extract", "embed"}
     /\ run' = [run EXCEPT ![d].pc = "cancelled"]
     /\ UNCHANGED <<store, rows, response>>
  \/ /\ run[d].pc = "index"
     /\ LET batch == AddBatch(run[d].chunks, run[d].embeddings)
        IN /\ run' = [run EXCEPT ![d].pc = "cancelled", ![d].batch = batch,
                                 ![d].adds = @ + 1]
           /\ store' = collection_add(store, {r \in batch : r.metadata.chunk_index = 0})
     /\ UNCHANGED <<rows, response>>

\* the caller cancels the task running ingest_document: CancelledError is
\* raised where the coroutine is suspended, which is in the await of the
\* extraction or of the embedding (add_documents holds no await), and it is
\* no Exception, so the except branch does not run
Cancel(d) ==
  /\ run[d].pc \in {"extract", "embed"}
  /\ run' = [run EXCEPT ![d].pc = "cancelled"]
  /\ UNCHANGED <<store, rows, response>>

\* CancelledError leaves ingest_document
Cancelled(d) ==
  /\ run[d].pc = "cancelled"
  /\ run' = [run EXCEPT ![d] = IdleRun]
  /\ UNCHANGED <<store, rows, response>>

\* the result dict of a direct call is handed back to the caller
Return(d) ==
  /\ run[d].pc \in {"success", "error"} /\ run[d].caller = "direct"
  /\ run' = [run EXCEPT ![d] = IdleRun]
  /\ UNCHANGED <<store, rows, response>>

(* ------------------------- document endpoints -------------------------- *)
\* upload_document up to the await on ingest_document: the row is inserted
\* with an id above every id in the table, the file is saved
UploadDocument(d, text, access_level, department) ==
  /\ AllIdle
  /\ \A e \in Docs : rows[e].present => e < d
  /\ rows' = [rows EXCEPT ![d] = [present |-> TRUE, is_indexed |-> FALSE,
                                   access_level |-> access_level,
                                   department |-> department, file |-> TRUE]]
  /\ run' = [run EXCEPT ![d] = BeginRun(d, "upload", text, access_level, department)]
  /\ response' = NoResponse
  /\ UNCHANGED store

\* UploadFinish as it would be if the row were marked indexed whatever the
\* pipeline answered
UploadFinish_always_indexed(d) ==
  /\ run[d].pc \in {"success", "error"} /\ run[d].caller = "upload"
  /\ rows' = [rows EXCEPT ![d].is_indexed = TRUE]
  /\ response' = [status |-> "uploaded", document_id |-> d,
                   processing_info |-> ingest_result(run[d])]
  /\ run' = [run EXCEPT ![d] = IdleRun]
  /\ UNCHANGED store

\* upload_document after ingest_document returned: is_indexed is set on
\* success, and the handler returns the pipeline's result
UploadFinish(d) ==
  /\ run[d].pc \in {"success", "error"} /\ run[d].caller = "upload"
  /\ rows' = [rows EXCEPT ![d].is_indexed = (ingest_result(run[d]).status = "success")]
  /\ response' = [status |-> "uploaded", document_id |-> d,
                   processing_info |-> ingest_result(run[d])]
  /\ run' = [run EXCEPT ![d] = IdleRun]
  /\ UNCHANGED store

\* upload_document after ingest_document returned, when the last db.commit
\* raises: the except branch deletes the row and the file and answers 500;
\* the collection is not touched
UploadAbort(d) ==
  /\ run[d].pc \in {"success", "error"} /\ run[d].caller = "upload"
  /\ rows' = [rows EXCEPT ![d] = NoRow]
  /\ response' = [status |-> "upload_error", document_id |-> d]
  /\ run' = [run EXCEPT ![d] = IdleRun]
  /\ UNCHANGED store

\* upload_document when saving the file raises: the except branch deletes the
\* row just inserted and the file, and answers 500; ingest_document is never
\* called
UploadSaveFails(d) ==
  /\ AllIdle
  /\ \A e \in Docs : rows[e].present => e < d
  /\ rows' = [rows EXCEPT ![d] = NoRow]
  /\ response' = [status |-> "upload_error", document_id |-> d]
  /\ UNCHANGED <<store, run>>

\* update_document: the fields given are set on the row; the collection is
\* not touched
UpdateDocument(d, access_level, department) ==
  /\ AllIdle
  /\ rows[d].present
  /\ rows' = [rows EXCEPT ![d].access_level = access_level,
                          ![d].department = department]
  /\ response' = [status |-> "updated", document_id |-> d]
  /\ UNCHANGED <<store, run>>

\* the query of list_documents as it would be without the IS NULL
\* alternative
list_documents_strict(rws, user_role, department) ==
  {d \in Docs :
     /\ rws[d].present
     /\ user_role # "admin" =>
          /\ rws[d].access_level \in
                (IF user_role = "manager" THEN {"employee", "manager"} ELSE {"employee"})
          /\ Truthy(department) => rws[d].department = department}

\* the query of list_documents for a user of the given role and department
\* (NoDept: the user object has no department): the ids it selects
list_documents(rws, user_role, department) ==
  {d \in Docs :
     /\ rws[d].present
     /\ user_role # "admin" =>
          /\ rws[d].access_level \in
                (IF user_role = "manager" THEN {"employee", "manager"} ELSE {"employee"})
          /\ Truthy(department) =>
               (rws[d].department = department \/ rws[d].department = NoDept)}

\* GET /documents/ by a user of the given role and department
ListDocuments(user_role, department) ==
  /\ response' = [status |-> "listed", user_role |-> user_role,
                   department |-> department,
                   documents |-> list_documents(rows, user_role, department)]
  /\ UNCHANGED <<store, rows, run>>

\* delete_document: removes the file and the row
DeleteDocument(d) ==
  /\ AllIdle
  /\ rows[d].present
  /\ rows' = [rows EXCEPT ![d] = NoRow]
  /\ response' = [status |-> "deleted", document_id |-> d]
  /\ UNCHANGED <<store, run>>

(* --------------------------- search_documents -------------------------- *)
\* Search as it would be if the pipeline remembered that the search before
\* was unrestricted and left the filter off again
Search_sticky(query, user_role, department, k) ==
  /\ LET filter_metadata == IF response.status = "ok" /\ response.filter = NoFilter
                            THEN NoFilter
                            ELSE build_access_filter(user_role, department)
     IN \E results \in similarity_search(store, encode(query), k, filter_metadata) :
          response' = [status |-> "ok", query |-> query, user_role |-> user_role,
                       department |-> department, k |-> k,
                       filter |-> filter_metadata, results |-> results]
  /\ UNCHANGED <<store, rows, run>>

\* search_documents(query, user_role, department, k) returns a result
\* list, whatever the ingestion runs are doing: collection.query is one
\* call without an await
Search(query, user_role, department, k) ==
  /\ LET filter_metadata == build_access_filter(user_role, department)
     IN \E results \in similarity_search(store, encode(query), k, filter_metadata) :
          response' = [status |-> "ok", query |-> query, user_role |-> user_role,
                       department |-> department, k |-> k,
                       filter |-> filter_metadata, results |-> results]
  /\ UNCHANGED <<store, rows, run>>

\* search_documents(query, user_role, department, k) while no run is in
\* flight
SearchDocuments(query, user_role, department, k) ==
  /\ AllIdle
  /\ Search(query, user_role, department, k)

\* the query embedding or the collection query raises
SearchFail ==
  /\ AllIdle
  /\ response' = [status |-> "error"]
  /\ UNCHANGED <<store, rows, run>>

\* the /search endpoint around search_documents: the result list with its
\* length, or HTTP 500
search_endpoint(outcome) ==
  IF outcome.status = "ok"
  THEN [http |-> 200, results |-> outcome.results,
        total_results |-> Len(outcome.results)]
  ELSE [http |-> 500, detail |-> "Error searching documents"]

\* DocumentRetrievalTool._arun as it would be if a failed search were
\* answered like a search without matches
arun_conflating(outcome) ==
  IF outcome.status = "ok" /\ outcome.results # <<>>
  THEN [text |-> "Document",
        relevance |-> [i \in DOMAIN outcome.results |->
                         Resolution - outcome.results[i].distance]]
  ELSE [text |-> "No relevant documents found in the knowledge base."]

\* DocumentRetrievalTool._arun around search_documents: the text handed to
\* the agent, with the relevance score 1 - distance of each result
arun(outcome) ==
  IF outcome.status = "ok"
  THEN IF outcome.results = <<>>
       THEN [text |-> "No relevant documents found in the knowledge base."]
       ELSE [text |-> "Document",
             relevance |-> [i \in DOMAIN outcome.results |->
                              Resolution - outcome.results[i].distance]]
  ELSE [text |-> "Error retrieving documents"]

\* the ids list add_documents builds for a list of two chunks
BuildIds(chunk1, chunk2) ==
  /\ AllIdle
  /\ response' = [status |-> "ids", chunks |-> <<chunk1, chunk2>>,
                   ids |-> <<ChunkId(chunk1.document_id, chunk1.chunk_index),
                             ChunkId(chunk2.document_id, chunk2.chunk_index)>>]
  /\ UNCHANGED <<store, rows, run>>

\* the steps of the pipeline, called directly, for documents drawn from the
\* given inputs
NextOver(texts, classes, roles, departments, maxk) ==
  \/ \E d \in Docs, text \in texts, class \in classes :
       IngestDocument(d, text, class[1], class[2])
  \/ \E d \in Docs :
       \/ ExtractOk(d) \/ ExtractFail(d)
       \/ ChunkOk(d) \/ ChunkFail(d)
       \/ EmbedBatch(d) \/ EmbedReturn(d)
       \/ \E cause \in {"transient", "permanent"} : EmbedFail(d, cause)
       \/ \E backend_up \in BOOLEAN : AddDocuments(d, backend_up)
       \/ Return(d)
  \/ \E query \in Queries, user_role \in roles,
        department \in departments, k \in 1..maxk :
       SearchDocuments(query, user_role, department, k)
  \/ SearchFail

Next == NextOver(Texts, Classes, {"employee", "admin"}, {NoDept}, TOP_K_RETRIEVAL)

\* ingestion runs one at a time; texts of zero to three chunks, documents of
\* two classifications, searches by an employee and by an admin
Spec == Init /\ [][Next]_vars

NextRetrieval == NextOver(RetrievalTexts, RetrievalClasses, Roles, UserDepartments, MaxK)

\* the same program; one text, documents of every classification, searches
\* by every role and department
RetrievalSpec == Init /\ [][NextRetrieval]_vars

\* the document endpoints: uploads of one text in two classifications with
\* every outcome of the pipeline, updates, deletions, listings, and searches
\* by an employee
NextDocuments ==
  \/ \E d \in Docs, text \in RetrievalTexts, class \in Classes :
       \/ UploadDocument(d, text, class[1], class[2])
       \/ UpdateDocument(d, class[1], class[2])
  \/ \E d \in Docs :
       \/ ExtractOk(d) \/ ExtractFail(d)
       \/ ChunkOk(d) \/ ChunkFail(d)
       \/ EmbedBatch(d) \/ EmbedReturn(d)
       \/ \E cause \in {"transient", "permanent"} : EmbedFail(d, cause)
       \/ \E backend_up \in BOOLEAN : AddDocuments(d, backend_up)
       \/ UploadFinish(d) \/ UploadAbort(d) \/ UploadSaveFails(d)
       \/ DeleteDocument(d)
  \/ \E user_role \in {"employee", "manager"} : ListDocuments(user_role, NoDept)
  \/ \E query \in Queries : SearchDocuments(query, "employee", NoDept, MaxK)

DocumentsSpec == Init /\ [][NextDocuments]_vars

\* the documents table holding any rows of any classification
ListingInit ==
  /\ store = {}
  /\ rows \in [Docs -> {NoRow} \cup
                         {[present |-> TRUE, is_indexed |-> FALSE,
                           access_level |-> class[1], department |-> class[2],
                           file |-> TRUE] : class \in RetrievalClasses}]
  /\ run = [d \in Docs |-> IdleRun]
  /\ response = NoResponse

NextListing ==
  \E user_role \in Levels, department \in UserDepartments :
     ListDocuments(user_role, department)

\* list_documents for every role and user department over every table
ListingSpec == ListingInit /\ [][NextListing]_vars

\* runs for different document ids in flight at once, cancellation, and
\* searches by an admin while runs are in flight
NextConcurrent ==
  \/ \E d \in Docs, text \in RetrievalTexts, class \in Classes :
       StartIngest(d, text, class[1], class[2])
  \/ \E d \in Docs :
       \/ ExtractOk(d) \/ ExtractFail(d)
       \/ ChunkOk(d) \/ ChunkFail(d)
       \/ EmbedBatch(d) \/ EmbedReturn(d)
       \/ \E cause \in {"transient", "permanent"} : EmbedFail(d, cause)
       \/ \E backend_up \in BOOLEAN : AddDocuments(d, backend_up)
       \/ Return(d)
       \/ Cancel(d) \/ Cancelled(d)
  \/ \E query \in Queries : Search(query, "admin", NoDept, TOP_K_RETRIEVAL)

ConcurrentSpec == Init /\ [][NextConcurrent]_vars

\* TextChunker(): RecursiveCharacterTextSplitter and SimpleNodeParser are
\* built from the settings; both raise ValueError for an overlap larger than
\* the chunk size and accept every other pair
NewTextChunker(chunk_size, chunk_overlap) ==
  /\ AllIdle
  /\ response' = [status |-> IF chunk_overlap > chunk_size THEN "ValueError" ELSE "chunker",
                   chunk_size |-> chunk_size, chunk_overlap |-> chunk_overlap]
  /\ UNCHANGED <<store, rows, run>>

\* a call of chunker.chunk_text(text) without metadata
ChunkText(text) ==
  /\ AllIdle
  /\ response' = [status |-> "chunks", text |-> text,
                   chunks |-> chunk_text(text, IdleRun.metadata)]
  /\ UNCHANGED <<store, rows, run>>

NextChunker ==
  \/ \E chunk_size \in 1..CHUNK_SIZE, chunk_overlap \in 0..(CHUNK_SIZE + 1) :
       NewTextChunker(chunk_size, chunk_overlap)
  \/ \E text \in ChunkTexts : ChunkText(text)

\* the chunker on its own: construction for every pair of settings up to
\* the chunk size, chunking of every text of letters and spaces up to
\* MaxTextLen characters
ChunkerSpec == Init /\ [][NextChunker]_vars

NextIds ==
  \E chunk1, chunk2 \in [document_id : IdNumbers, chunk_index : IdNumbers] :
     BuildIds(chunk1, chunk2)

\* add_documents building the ids of two chunks, for every pair of chunks
\* with document id and chunk index among IdNumbers
IdSpec == Init /\ [][NextIds]_vars

(* ------------------------------ properties ----------------------------- *)
RecordsOf(coll, d) == {r \in coll : r.metadata.document_id = d}
Searched == response.status = "ok"
\* the filter search_documents builds for the caller of the latest search
CallerFilter == build_access_filter(response.user_role, response.department)
Admitted == {r \in store : Matches(CallerFilter, r.metadata)}
ResultLevels == {response.results[i].metadata.access_level : i \in DOMAIN response.results}
ResultDepartments == {response.results[i].metadata.department : i \in DOMAIN response.results}
\* the metadata a stored record can carry, as far as a filter reads it
AnyMetadata == [access_level : Levels, department : DocDepartments]

\* C1: a role that is none of employee, manager, admin gets a filter that
\* admits exactly what an employee's filter admits for the same department:
\* it is never the unrestricted filter and no manager-level or admin-level
\* record is returned.
C1_UnknownRoleFailsClosed ==
  (Searched /\ response.user_role \notin Levels) =>
     /\ CallerFilter # NoFilter
     /\ \A m \in AnyMetadata :
          Matches(CallerFilter, m)
            <=> Matches(build_access_filter("employee", response.department), m)
     /\ ResultLevels \subseteq {"employee"}

\* C2: every record a search returns is a stored record that satisfies the
\* filter built from the caller's role and department, and the list is cut to
\* k among the records that satisfy it: it has min(k, admitted) entries.
C2_ResultsSatisfyFilter ==
  Searched =>
     /\ \A i \in DOMAIN response.results :
          /\ Matches(CallerFilter, response.results[i].metadata)
          /\ \E r \in store : /\ r.id = response.results[i].id
                              /\ r.metadata = response.results[i].metadata
                              /\ r.document = response.results[i].content
     /\ Len(response.results) = Min(response.k, Cardinality(Admitted))

\* a search whose filter rejects a stored record and that was cut to k
C2_Witness ==
  /\ Searched
  /\ \E r \in store : ~Matches(CallerFilter, r.metadata)
  /\ Cardinality(Admitted) > response.k
  /\ Len(response.results) = response.k

\* C3: without a department, an employee's filter admits employee records
\* only, a manager's employee and manager records, an admin's every record;
\* so a search never returns a record above the caller's role, and a manager
\* or admin search that is not cut to k returns every manager-level record.
C3_RoleLevelTable ==
  (Searched /\ response.user_role \in Levels) =>
    LET role == response.user_role
        allowed == IF role = "employee" THEN {"employee"}
                   ELSE IF role = "manager" THEN {"employee", "manager"}
                   ELSE Levels
    IN /\ \A m \in AnyMetadata :
            /\ Matches(build_access_filter(role, NoDept), m) <=> m.access_level \in allowed
            /\ Matches(CallerFilter, m) => m.access_level \in allowed
       /\ ResultLevels \subseteq allowed
       /\ ( /\ role \in {"manager", "admin"}
            /\ response.department = NoDept
            /\ Len(response.results) < response.k )
          => \A r \in store : r.metadata.access_level = "manager"
                => \E i \in DOMAIN response.results : response.results[i].id = r.id

\* an employee searched a store that holds manager-level chunks and got
\* only employee-level ones
C3_Witness ==
  /\ Searched /\ response.user_role = "employee"
  /\ \E r \in store : r.metadata.access_level = "manager"
  /\ response.results # <<>>
  /\ ResultLevels = {"employee"}

\* C4: for a role other than admin and a department d, the filter admits a
\* record only if its department is d or None; for an admin, or without a
\* department, whether a record is admitted does not depend on its department.
C4_DepartmentScope ==
  Searched =>
    LET role == response.user_role
        d == response.department
    IN IF role # "admin" /\ Truthy(d)
       THEN /\ \A m \in AnyMetadata :
                 Matches(CallerFilter, m) => m.department \in {d, NoDept}
            /\ ResultDepartments \subseteq {d, NoDept}
       ELSE \A m \in AnyMetadata, other \in DocDepartments :
              Matches(CallerFilter, m)
                <=> Matches(CallerFilter, [m EXCEPT !.department = other])

\* a manager of Finance searched a store holding an HR record of a level
\* the manager may read and untagged records, and got only untagged ones
C4_Witness ==
  /\ Searched /\ response.user_role = "manager" /\ response.department = "Finance"
  /\ \E r \in store : /\ r.metadata.department = "HR"
                      /\ r.metadata.access_level \in {"employee", "manager"}
  /\ ResultDepartments = {NoDept}

\* C5: a run calls collection.add at most once, only after every chunk has
\* its embedding, with one record per chunk; until then, and when the
\* embedding fails, the run has written nothing.
C5_SingleBatchAfterEmbedding ==
  \A d \in Docs :
    LET r == run[d]
    IN /\ r.adds <= 1
       /\ r.adds = 1 =>
            /\ Len(r.embeddings) = Len(r.chunks)
            /\ Len(r.trace) >= 3 /\ r.trace[3] = "embed"
            /\ Ids(r.batch) = {ChunkId(d, i) : i \in 0..(Len(r.chunks) - 1)}
            /\ Cardinality(r.batch) = Len(r.chunks)
       /\ (r.pc # "idle" /\ r.adds = 0) => store = r.pre
       /\ r.failed = "embed" => (r.adds = 0 /\ store = r.pre)

\* the embedding failed after some but not all chunks were embedded
C5_Witness ==
  \E d \in Docs :
    /\ run[d].failed = "embed"
    /\ Len(run[d].embeddings) > 0
    /\ Len(run[d].embeddings) < Len(run[d].chunks)

\* C6: when a run ends with status error, the collection is what it was when
\* the run began, for this document and for every other one.
C6_FailureNotDestructive ==
  \A d \in Docs : run[d].pc = "error" => store = run[d].pre

\* a run of an already indexed document failed in the store write
C6_Witness ==
  \E d \in Docs :
    /\ run[d].pc = "error" /\ run[d].failed = "store"
    /\ RecordsOf(run[d].pre, d) # {}
    /\ run[d].batch # {}

\* C7: a run whose chunk ids are all stored already (the document was
\* ingested before with the same text) is not refused by the store: it fails
\* only if the backend is down, and when it succeeds the collection holds
\* the same ids and the same number of records for the document as before.
C7_ReingestIdempotent ==
  \A d \in Docs :
    LET r == run[d]
    IN (r.adds = 1 /\ r.batch # {} /\ Ids(r.batch) \subseteq Ids(r.pre)) =>
         /\ r.pc = "error" => r.fault = "store"
         /\ r.pc = "success" =>
              /\ Ids(store) = Ids(r.pre)
              /\ Cardinality(RecordsOf(store, d)) = Cardinality(RecordsOf(r.pre, d))

\* the second run of an unchanged document succeeded
C7_Witness ==
  \E d \in Docs :
    /\ run[d].pc = "success"
    /\ run[d].batch # {}
    /\ run[d].batch = RecordsOf(run[d].pre, d)

\* C8: after a successful run the collection's records for the document are
\* exactly the records of that run: same ids, each with the run's text,
\* vector and metadata, and nothing left of an earlier run.
C8_LatestRunReplaces ==
  \A d \in Docs : run[d].pc = "success" => RecordsOf(store, d) = run[d].batch

\* C9: once delete_document(d) has answered, the collection holds no record
\* of document d.
C9_DeleteCascades ==
  response.status = "deleted" => RecordsOf(store, response.document_id) = {}

\* C10: the stages of a run return in the order extract, chunk, embed, store;
\* the coroutine is in a stage only when every earlier stage has returned;
\* a run that failed did so in the stage after the last one that returned and
\* started none after it; status success means the store write returned; and
\* from success or error the run only goes back to idle.
C10_StageOrder ==
  \A d \in Docs :
    LET r == run[d]
        n == Len(r.trace)
    IN /\ n <= 4 /\ \A i \in 1..n : r.trace[i] = Stages[i]
       /\ r.pc \in {"idle", "extract"} => n = 0
       /\ r.pc = "chunk" => n = 1
       /\ r.pc = "embed" => n = 2
       /\ r.pc = "index" => n = 3
       /\ r.pc = "success" <=> n = 4
       /\ r.pc = "error" => (n < 4 /\ r.failed = Stages[n + 1])
       /\ r.pc # "error" => r.failed = "none"
       /\ n < 2 => (r.chunks = <<>> /\ r.embeddings = <<>>)
       /\ n < 3 => r.adds = 0

C10_Terminal ==
  \A d \in Docs :
    run[d].pc \in {"success", "error"} => run'[d] \in {run[d], IdleRun}

C10_StagesInOrder == [](C10_StageOrder) /\ [][C10_Terminal]_vars

\* a run failed in the embedding stage, after extraction and chunking returned
C10_Witness ==
  \E d \in Docs :
    /\ run[d].pc = "error" /\ run[d].failed = "embed"
    /\ run[d].trace = <<"extract", "chunk">>
    /\ run[d].chunks # <<>>

\* the stage an error message names, if any
StageNamed(error) ==
  CASE error = "Error extracting text from" -> "extract"
    [] error = "Error generating embeddings" -> "embed"
    [] error = "Error adding documents to vector store" -> "store"
    [] OTHER -> "none"

\* C11: a run in which a stage failed returns status error and its result
\* names that stage, whichever of the four stages it was; a run that returns
\* status success is one in which no stage failed.
C11_FailedStageRecorded ==
  \A d \in Docs :
     /\ run[d].pc = "error" =>
          /\ ingest_result(run[d]).status = "error"
          /\ StageNamed(ingest_result(run[d]).error) = run[d].failed
     /\ run[d].pc = "success" =>
          /\ ingest_result(run[d]).status = "success"
          /\ run[d].failed = "none"

\* C12: a search answers an empty list exactly when no stored record
\* satisfies the caller's filter; a failed search raises and carries no
\* result list; the /search endpoint and the retrieval tool answer a search
\* without matches (HTTP 200 with no results, the no-documents text) and a
\* failed search (HTTP 500, the error text) differently.
C12_EmptyIsNotFailure ==
  /\ Searched =>
       /\ response.results = <<>> <=> Admitted = {}
       /\ search_endpoint(response).http = 200
       /\ search_endpoint(response).total_results = Len(response.results)
       /\ arun(response).text # "Error retrieving documents"
       /\ arun(response).text = "No relevant documents found in the knowledge base."
            <=> Admitted = {}
  /\ response.status = "error" =>
       /\ "results" \notin DOMAIN response
       /\ search_endpoint(response).http = 500
       /\ "results" \notin DOMAIN search_endpoint(response)
       /\ arun(response).text = "Error retrieving documents"

\* a search over a collection that holds records, none of which the
\* caller's filter admits
C12_Witness ==
  /\ Searched /\ store # {} /\ Admitted = {}
  /\ response.results = <<>>
  /\ search_endpoint(response).total_results = 0

\* C13: with m the number of stored records the caller's filter admits, a
\* search for k > 0 returns min(k, m) records: at most k, all m of them when
\* m < k, none when m = 0, and no record twice.
C13_MinOfKAndMatches ==
  Searched =>
     LET m == Cardinality(Admitted)
         n == Len(response.results)
     IN /\ response.k > 0
        /\ n <= response.k
        /\ m < response.k => n = m
        /\ m >= response.k => n = response.k
        /\ \A i, j \in 1..n : response.results[i].id = response.results[j].id => i = j

\* a search for more records than the filter admits, which admits some
C13_Witness ==
  /\ Searched
  /\ 0 < Cardinality(Admitted) /\ Cardinality(Admitted) < response.k
  /\ Len(response.results) = Cardinality(Admitted)
  /\ Admitted # store

\* C14: the list a search returns is in ascending order of distance, which
\* is descending order of the relevance the retrieval tool shows, and it is
\* the list of matches in the order in which the collection reported them.
C14_AscendingDistance ==
  Searched =>
     /\ \A i, j \in DOMAIN response.results :
          i < j => /\ response.results[i].distance <= response.results[j].distance
                   /\ arun(response).relevance[i] >= arun(response).relevance[j]
     /\ \E res \in collection_query(store, encode(response.query), response.k, CallerFilter) :
          /\ Len(res) = Len(response.results)
          /\ \A i \in DOMAIN res : /\ response.results[i].id = res[i].id
                                   /\ response.results[i].distance
                                        = Distance(encode(response.query), res[i].embedding)

\* a search that returned records at different distances and left out an
\* admitted record that is farther away than all of them
C14_Witness ==
  /\ Searched /\ Len(response.results) >= 2
  /\ response.results[1].distance < response.results[2].distance
  /\ \E r \in Admitted :
       \A i \in DOMAIN response.results :
          Distance(encode(response.query), r.embedding) > response.results[i].distance

\* C15: the relevance score shown for a retrieved record lies between 0 and
\* 1, whatever distance between 0 and 2 the collection reported for it.
C15_RelevanceClamped ==
  Searched =>
     \A i \in DOMAIN response.results :
        /\ response.results[i].distance \in 0..(2 * Resolution)
        /\ arun(response).relevance[i] \in 0..Resolution

\* C16: a run fails in the embedding stage on a passing backend failure only
\* after the embedding call was made again, and on a lasting failure after
\* the one call.
C16_TransientRetried ==
  \A d \in Docs :
     run[d].failed = "embed" =>
        /\ run[d].cause = "transient" => run[d].embed_calls > 1
        /\ run[d].cause = "permanent" => run[d].embed_calls = 1

\* C17: embed_documents returns one embedding per text, in the order of the
\* texts: while it runs, what it has collected is the embeddings of the first
\* texts, and once it has returned, entry i is the embedding of text i for
\* every i, also when the number of texts is zero or no multiple of the
\* batch size.
C17_EmbeddingsAligned ==
  \A d \in Docs :
     /\ Len(run[d].embeddings) <= Len(run[d].chunks)
     /\ \A i \in DOMAIN run[d].embeddings :
          run[d].embeddings[i] = encode(run[d].chunks[i].content)
     /\ run[d].pc \in {"index", "success"} =>
          Len(run[d].embeddings) = Len(run[d].chunks)

\* embed_documents has returned for a number of texts that is above the
\* batch size and no multiple of it
C17_Witness ==
  \E d \in Docs :
     /\ run[d].pc = "index"
     /\ Len(run[d].chunks) > EMBEDDING_BATCH_SIZE
     /\ Len(run[d].chunks) % EMBEDDING_BATCH_SIZE # 0
     /\ Len(run[d].embeddings) = Len(run[d].chunks)

\* C18: the chunks chunk_text returns are numbered 0, 1, ..., n-1 in list
\* order, each chunk's metadata carries the chunk's own number, and every
\* chunk's metadata carries n, the number of chunks returned, as total_chunks.
C18_ChunkIndexDense ==
  \A d \in Docs :
     LET chunks == run[d].chunks
     IN \A i \in DOMAIN chunks :
          /\ chunks[i].chunk_index = i - 1
          /\ chunks[i].metadata.chunk_index = chunks[i].chunk_index
          /\ chunks[i].metadata.total_chunks = Len(chunks)

\* chunk_text has returned three chunks
C18_Witness ==
  \E d \in Docs :
     /\ run[d].pc = "embed" /\ Len(run[d].chunks) = Len(split_text(run[d].text))
     /\ Len(run[d].chunks) >= 3
     /\ run[d].chunks[Len(run[d].chunks)].chunk_index = Len(run[d].chunks) - 1

\* C19: every record a run hands to collection.add, and so every record it
\* writes, carries the access_level and the department the run was started
\* with and the run's document_id.
C19_RecordsCarryClassification ==
  \A d \in Docs :
     /\ \A r \in run[d].batch :
          /\ r.metadata.access_level = run[d].metadata.access_level
          /\ r.metadata.department = run[d].metadata.department
          /\ r.metadata.document_id = d
     /\ run[d].pc = "success" =>
          /\ run[d].metadata.document_id = d
          /\ (store \ run[d].pre) \subseteq run[d].batch

\* a run for a manager-level document of a department has written records
\* to a collection that held another document's records of another level
C19_Witness ==
  \E d \in Docs :
     /\ run[d].pc = "success"
     /\ run[d].metadata.access_level = "manager" /\ run[d].metadata.department = "HR"
     /\ store \ run[d].pre # {}
     /\ \E r \in run[d].pre : r.metadata.access_level # "manager"

\* C20: two chunks that differ in document id or in chunk index get
\* different ids from add_documents.
C20_ChunkIdInjective ==
  response.status = "ids" =>
     (response.ids[1] = response.ids[2] => response.chunks[1] = response.chunks[2])

\* ids were built for two chunks of different documents whose numbers are
\* each other's in reverse, one of them of two digits
C20_Witness ==
  /\ response.status = "ids"
  /\ response.chunks[1].document_id = response.chunks[2].chunk_index
  /\ response.chunks[1].chunk_index = response.chunks[2].document_id
  /\ response.chunks[1].document_id = 1 /\ response.chunks[1].chunk_index = MaxId
  /\ response.ids[1] # response.ids[2]

\* C21: for a text no longer than the chunk size, chunk_text returns no
\* chunk when the text is empty and exactly one chunk when it is not.
C21_ShortTextOneChunk ==
  (response.status = "chunks" /\ Len(response.text) <= CHUNK_SIZE) =>
     /\ response.text = <<>> => response.chunks = <<>>
     /\ response.text # <<>> => Len(response.chunks) = 1

\* C22: constructing a TextChunker fails with an invalid-argument error
\* exactly when the overlap is not below the chunk size, the case of equal
\* values included: no chunker exists whose overlap reaches its chunk size.
C22_OverlapBelowSize ==
  response.status \in {"chunker", "ValueError"} =>
     (response.status = "ValueError" <=> response.chunk_overlap >= response.chunk_size)

\* the chunks' contents in index order, each after the first without its
\* first CHUNK_OVERLAP characters, joined
RECURSIVE Reconstructed(_, _)
Reconstructed(chunks, i) ==
  IF i > Len(chunks) THEN <<>>
  ELSE (IF i = 1 THEN chunks[i].content
        ELSE SubSeq(chunks[i].content, CHUNK_OVERLAP + 1, Len(chunks[i].content)))
       \o Reconstructed(chunks, i + 1)

\* ceil(a / b) for b > 0
Ceil(a, b) == 0 - ((0 - a) \div b)

\* C23: with an overlap below the chunk size, every chunk of a text is at
\* most CHUNK_SIZE characters long, the chunks joined in index order without
\* their overlap prefixes are the text, and there are
\* ceil((len(text) - overlap) / (size - overlap)) chunks.
C23_ChunksReconstructText ==
  (response.status = "chunks" /\ CHUNK_OVERLAP < CHUNK_SIZE) =>
     /\ \A i \in DOMAIN response.chunks : Len(response.chunks[i].content) <= CHUNK_SIZE
     /\ Reconstructed(response.chunks, 1) = response.text
     /\ Len(response.chunks)
          = Ceil(Len(response.text) - CHUNK_OVERLAP, CHUNK_SIZE - CHUNK_OVERLAP)

\* C24: runs for different document ids that are in flight together do not
\* interfere: the records a run hands to the collection have ids built from
\* its own document id and carry its own document id, access_level and
\* department; and when two runs have both succeeded, and nothing but the
\* two wrote to the collection since the first of them began, the
\* collection is what it was then plus what each would have written alone.
C24_RunsDoNotInterfere ==
  /\ \A d \in Docs :
       \A r \in run[d].batch :
          /\ r.id = ChunkId(d, r.metadata.chunk_index)
          /\ r.metadata.document_id = d
          /\ r.metadata.access_level = run[d].metadata.access_level
          /\ r.metadata.department = run[d].metadata.department
  /\ \A d, e \in Docs :
       (/\ d # e /\ run[d].pc = "success" /\ run[e].pc = "success"
        /\ run[d].pre \subseteq run[e].pre
        /\ (run[e].pre \ run[d].pre) \subseteq run[d].batch)
         => store = collection_add(run[d].pre, run[d].batch)
                      \cup collection_add(run[d].pre, run[e].batch)

\* two runs of different classification that began on the same collection,
\* before either wrote, have both succeeded
C24_Witness ==
  \E d, e \in Docs :
     /\ d # e /\ run[d].pc = "success" /\ run[e].pc = "success"
     /\ run[d].pre = run[e].pre
     /\ run[d].metadata.access_level # run[e].metadata.access_level
     /\ run[d].batch # {} /\ run[e].batch # {}
     /\ run[d].batch \cup run[e].batch \subseteq store

\* the records a run writes if its collection.add goes through
OwnRecords(d) ==
  {r \in AddBatch(chunk_text(run[d].text, run[d].metadata),
                  [i \in 1..Len(split_text(run[d].text)) |->
                     encode(split_text(run[d].text)[i])]) :
     r.id \notin Ids(run[d].pre)}

\* C25: a search made while a run is in flight, and that returned every
\* record there was, holds none of the records the run writes or all of
\* them.
C25_SearchSeesWholeBatch ==
  (Searched /\ Len(response.results) < response.k) =>
     \A d \in Docs :
        run[d].pc \notin {"idle", "cancelled"} =>
           LET seen == {response.results[i].id : i \in DOMAIN response.results}
               own == Ids(OwnRecords(d))
           IN seen \cap own = {} \/ own \subseteq seen

\* a search made while one run had written its batch of several records and
\* another run was between its embedding and its write
C25_Witness ==
  /\ Searched /\ Len(response.results) < response.k
  /\ \E d, e \in Docs :
       /\ run[d].pc = "success" /\ run[e].pc = "index"
       /\ Cardinality(OwnRecords(d)) >= 2 /\ Cardinality(OwnRecords(e)) >= 2
       /\ Ids(OwnRecords(d)) = {response.results[i].id : i \in DOMAIN response.results}

\* C26: a cancelled run has handed nothing to the collection and the
\* collection holds no record of its document that was not there when it
\* began; a run whose write was issued is not cancelled any more, and when
\* the write went through the whole batch is in the collection.
C26_CancelWritesNothing ==
  \A d \in Docs :
     /\ run[d].pc = "cancelled" =>
          /\ run[d].adds = 0
          /\ {r \in store \ run[d].pre : r.metadata.document_id = d} = {}
     /\ run[d].adds > 0 =>
          /\ run[d].pc \in {"success", "error"}
          /\ run[d].pc = "success" => Ids(run[d].batch) \subseteq Ids(store)
          /\ run[d].pc = "error" =>
               {r \in store \ run[d].pre : r.metadata.document_id = d} = {}

\* a run was cancelled while its embeddings were being computed, after the
\* other run had written to the collection
C26_Witness ==
  \E d \in Docs :
     /\ run[d].pc = "cancelled"
     /\ run[d].chunks # <<>> /\ run[d].trace = <<"extract", "chunk">>
     /\ store # run[d].pre

\* C27: the filter a search uses is determined by the caller's role and
\* department alone, whatever the collection holds and whatever was ingested
\* or searched before, also by a more privileged role; a search changes
\* neither the collection, nor the documents table, nor a run.
C27_FilterOfArguments ==
  Searched =>
     /\ response.filter = build_access_filter(response.user_role, response.department)
     /\ \A i \in DOMAIN response.results :
          Matches(build_access_filter(response.user_role, response.department),
                  response.results[i].metadata)

C27_SearchChangesNothing ==
  (response' # response /\ response'.status \in {"ok", "error"})
     => UNCHANGED <<store, rows, run>>

C28_ChunksFollowRow ==
  /\ \A r \in store :
       LET row == rows[r.metadata.document_id]
       IN  row.present =>
             /\ r.metadata.access_level = row.access_level
             /\ r.metadata.department = row.department
  /\ (Searched /\ response.user_role = "employee") =>
       \A i \in DOMAIN response.results :
          LET row == rows[response.results[i].metadata.document_id]
          IN  row.present => row.access_level = "employee"

\* C29: for every role among employee, manager and admin, every user
\* department and every row of the table, list_documents selects the row
\* exactly when the filter _build_access_filter builds for the same role and
\* department admits metadata carrying the row's access_level and department.
C29_AccessRulesAgree ==
  response.status = "listed" =>
    \A d \in Docs :
       rows[d].present =>
         (d \in response.documents
            <=> Matches(build_access_filter(response.user_role, response.department),
                        [access_level |-> rows[d].access_level,
                         department |-> rows[d].department]))

\* a listing for a manager of a department that selects one row through the
\* IS NULL alternative and leaves the other out
C29_Witness ==
  /\ response.status = "listed"
  /\ response.user_role = "manager" /\ response.department = "Finance"
  /\ rows[1].present /\ rows[1].department = NoDept /\ rows[1].access_level = "manager"
  /\ rows[2].present /\ rows[2].department = "HR"
  /\ response.documents = {1}

====
